---- MODULE Spec2Model ----
(***************************************************************************)
(* A model of src/script.py: the scheduled change detector.  One run of    *)
(* the script is the import of the module (lines 14-20) followed by        *)
(* main() (lines 98-188).  The persisted state (state/last_snapshot.json   *)
(* and state/snapshots/) survives from run to run; everything else is      *)
(* local to a run.                                                         *)
(*                                                                         *)
(* Strings are sequences of one-character strings, so that len(), slicing, *)
(* split(), strip() and re.sub() are computed.  The character U+00A0 is    *)
(* written "nbsp".                                                         *)
(***************************************************************************)
EXTENDS Integers, Sequences, FiniteSets, TLC

VARIABLES
    pc,         \* position of the current run in script.py
    runs,       \* number of runs launched so far
    clock,      \* the machine's local clock, in ticks
    env,        \* os.environ of the current run (after load_dotenv)
    now_ct,     \* main: now (line 99), minutes after midnight, America/Chicago
    stateFile,  \* state/last_snapshot.json
    archive,    \* state/snapshots/: file name -> content
    last_hash,  \* main: last_hash (line 116)
    last_text,  \* main: last_text (line 117)
    content,    \* main: content (lines 150, 159)
    new_text,   \* main: new_text (line 163)
    new_hash,   \* main: new_hash (line 164)
    now,        \* main: now (line 165), the formatted timestamp
    raised,     \* the uncaught exception that ended the run, or "none"
    branch,     \* history: which branch of main the run took
    launched,   \* history: sync_playwright() was entered (network activity)
    fetchKind,  \* history: how the browser session of this run ended
    posts,      \* history: the POSTs requests.post performed in this run
    sendCalls,  \* history: the calls of send_pushover in this run
    sendReturn, \* history: what the last send_pushover call returned or raised
    sendResp,   \* history: the endpoint's answers to the POSTs of that call
    writes,     \* history: the archive file names written by this run, in order
    saves,      \* history: number of save_state calls in this run
    stateFile0, \* history: stateFile when the run was launched
    archive0,   \* history: archive when the run was launched
    prevChangeFailed  \* history: the run before this one took the change
                      \* branch and ended in an error

vars == <<pc, runs, clock, env, now_ct, stateFile, archive, last_hash, last_text,
          content, new_text, new_hash, now, raised, branch, launched, fetchKind,
          posts, sendCalls, sendReturn, sendResp, writes, saves, stateFile0, archive0,
          prevChangeFailed>>

----------------------------------------------------------------------------
(* Bounds of the model *)

MaxRuns == 3
MaxClock == 3
TicksPerSecond == 2

----------------------------------------------------------------------------
(* Python string helpers *)

\* str.isspace() / the regex class \s on str: Unicode whitespace, U+00A0 included
IsSpace(c) == c \in {" ", "\n", "\t", "nbsp"}

\* s.replace(a, b) for one-character a and b
Replace(s, a, b) == [i \in 1..Len(s) |-> IF s[i] = a THEN b ELSE s[i]]

RECURSIVE LStrip(_)
LStrip(s) == IF s # <<>> /\ IsSpace(Head(s)) THEN LStrip(Tail(s)) ELSE s

RECURSIVE RStrip(_)
RStrip(s) ==
    IF s # <<>> /\ IsSpace(s[Len(s)]) THEN RStrip(SubSeq(s, 1, Len(s) - 1)) ELSE s

\* s.strip()
Strip(s) == RStrip(LStrip(s))

\* re.sub(r"\s+", " ", s): every maximal run of whitespace becomes one space
RECURSIVE SubWhitespace(_)
SubWhitespace(s) ==
    IF s = <<>> THEN <<>>
    ELSE IF IsSpace(Head(s))
         THEN <<" ">> \o SubWhitespace(LStrip(s))
         ELSE <<Head(s)>> \o SubWhitespace(Tail(s))

\* s.split(sep) for a one-character sep: always at least one piece
RECURSIVE SplitAcc(_, _, _)
SplitAcc(s, sep, cur) ==
    IF s = <<>> THEN <<cur>>
    ELSE IF Head(s) = sep
         THEN <<cur>> \o SplitAcc(Tail(s), sep, <<>>)
         ELSE SplitAcc(Tail(s), sep, Append(cur, Head(s)))

Split(s, sep) == SplitAcc(s, sep, <<>>)

\* sep.join(parts)
RECURSIVE Join(_, _)
Join(sep, parts) ==
    IF parts = <<>> THEN <<>>
    ELSE IF Len(parts) = 1 THEN parts[1]
         ELSE parts[1] \o sep \o Join(sep, Tail(parts))

\* s.splitlines() for a string whose only line boundary is "\n"
SplitLines(s) ==
    IF s = <<>> THEN <<>>
    ELSE LET p == Split(s, "\n")
         IN IF p[Len(p)] = <<>> THEN SubSeq(p, 1, Len(p) - 1) ELSE p

----------------------------------------------------------------------------
(* The module namespace and the environment *)

\* The data names bound at module level (lines 16-20).  The imports (lines 1-12)
\* and the functions bind further names; none of them is PUSHOVER_MAX_CHARS or TZ.
ModuleGlobals ==
    [STATE_DIR    |-> "state",
     STATE_FILE   |-> "state/last_snapshot.json",
     SNAPSHOT_DIR |-> "state/snapshots"]

\* Whether evaluating the global name n succeeds; otherwise Python raises NameError
Bound(n) == n \in DOMAIN ModuleGlobals

\* The variables main() reads with os.environ[...] (lines 105-112)
RequiredVars ==
    <<"LOGIN_URL", "TARGET_URL", "USERNAME", "PASSWORD",
      "USERNAME_SELECTOR", "PASSWORD_SELECTOR", "SUBMIT_SELECTOR">>

FullEnv ==
    [LOGIN_URL          |-> <<"l">>,
     TARGET_URL         |-> <<"t">>,
     USERNAME           |-> <<"u">>,
     PASSWORD           |-> <<"p">>,
     USERNAME_SELECTOR  |-> <<"#", "u">>,
     PASSWORD_SELECTOR  |-> <<"#", "p">>,
     SUBMIT_SELECTOR    |-> <<"#", "s">>,
     CONTENT_SELECTOR   |-> <<"#", "c">>,
     PUSHOVER_APP_TOKEN |-> <<"T">>,
     PUSHOVER_USER_KEYS |-> <<"k", ",", "j">>]

Without(e, k) == [x \in DOMAIN e \ {k} |-> e[x]]

With(e, k, v) == [x \in DOMAIN e \cup {k} |-> IF x = k THEN v ELSE e[x]]

\* The environments a run may be launched in
Envs ==
    {FullEnv}
    \cup {Without(FullEnv, RequiredVars[i]) : i \in 1..Len(RequiredVars)}
    \cup {Without(FullEnv, "CONTENT_SELECTOR")}
    \cup {Without(FullEnv, "PUSHOVER_APP_TOKEN")}
    \cup {With(FullEnv, "PUSHOVER_APP_TOKEN", <<" ">>)}
    \cup {Without(FullEnv, "PUSHOVER_USER_KEYS")}
    \cup {With(Without(FullEnv, "PUSHOVER_USER_KEYS"), "PUSHOVER_USER_KEY", <<"k">>)}
    \cup {With(FullEnv, "PUSHOVER_USER_KEYS", <<" ", "k", " ", ",", " ", ",", "j">>)}

\* (os.getenv(k) or "")
GetenvOrEmpty(e, k) == IF k \in DOMAIN e THEN e[k] ELSE <<>>

\* os.environ.get(k, default)
EnvironGet(e, k, default) == IF k \in DOMAIN e THEN e[k] ELSE default

----------------------------------------------------------------------------
(* get_pushover_users, lines 22-30 *)

\* A mutant of get_pushover_users: the entries of the list are kept untrimmed
get_pushover_users_NoTrim(e) ==
    LET raw == Strip(GetenvOrEmpty(e, "PUSHOVER_USER_KEYS"))
        single == Strip(GetenvOrEmpty(e, "PUSHOVER_USER_KEY"))
    IN IF raw # <<>>
       THEN SelectSeq(Split(raw, ","), LAMBDA u : Strip(u) # <<>>)
       ELSE IF single # <<>> THEN <<single>> ELSE <<>>

get_pushover_users(e) ==
    LET raw == Strip(GetenvOrEmpty(e, "PUSHOVER_USER_KEYS"))
        parts == Split(raw, ",")
        single == Strip(GetenvOrEmpty(e, "PUSHOVER_USER_KEY"))
    IN IF raw # <<>>
       THEN [i \in 1..Len(SelectSeq(parts, LAMBDA u : Strip(u) # <<>>)) |->
                Strip(SelectSeq(parts, LAMBDA u : Strip(u) # <<>>)[i])]
       ELSE IF single # <<>> THEN <<single>> ELSE <<>>

----------------------------------------------------------------------------
(* send_pushover, lines 33-68 *)

\* What the notification endpoint may answer to one POST: a status code, or a
\* requests.RequestException (transport failure or timeout)
Responses ==
    {[exc |-> FALSE, status |-> 200],
     [exc |-> FALSE, status |-> 500],
     [exc |-> TRUE,  status |-> 0]}

\* The largest number of recipients an environment of Envs configures
MaxUsers == 2

Watcher == <<"W", "a", "t", "c", "h", "e", "r">>

\* lines 43-44
TruncateMessage(message, cap) ==
    IF Len(message) > cap
    THEN SubSeq(message, 1, cap - 3) \o <<".", ".", ".">>
    ELSE message

\* lines 46-63: the loop over users from index i on; resp[i] is the answer to
\* the i-th POST
RECURSIVE PostLoop(_, _, _, _, _, _)
PostLoop(token, users, message, title, resp, i) ==
    IF i > Len(users)
    THEN [posts |-> <<>>, errors |-> <<>>, results |-> <<>>]
    ELSE LET user == users[i]
             payload == [token |-> token, user |-> user,
                         message |-> message, title |-> title]
             rest == PostLoop(token, users, message, title, resp, i + 1)
         IN IF resp[i].exc
            THEN [posts   |-> <<payload>> \o rest.posts,
                  errors  |-> <<[user |-> user, what |-> "exception"]>> \o rest.errors,
                  results |-> rest.results]
            ELSE IF resp[i].status # 200
            THEN [posts   |-> <<payload>> \o rest.posts,
                  errors  |-> <<[user |-> user, what |-> "status"]>> \o rest.errors,
                  results |-> rest.results]
            ELSE [posts   |-> <<payload>> \o rest.posts,
                  errors  |-> rest.errors,
                  results |-> <<[user |-> user]>> \o rest.results]

\* The outcome of one call: the exception raised ("none": the call returned),
\* the POSTs performed, the entries of the error list and the results returned
send_pushover(message, title, e, resp) ==
    LET token == Strip(GetenvOrEmpty(e, "PUSHOVER_APP_TOKEN"))
        users == get_pushover_users(e)
        early(type, msg) ==
            [raised |-> type, msg |-> msg, users |-> users,
             posts |-> <<>>, errors |-> <<>>, results |-> <<>>]
    IN IF token = <<>>
       THEN early("RuntimeError", "Missing PUSHOVER_APP_TOKEN in environment.")
       ELSE IF users = <<>>
       THEN early("RuntimeError", "Missing PUSHOVER_USER_KEYS (comma-separated) or PUSHOVER_USER_KEY in environment.")
       ELSE IF ~Bound("PUSHOVER_MAX_CHARS")
       THEN early("NameError", "name 'PUSHOVER_MAX_CHARS' is not defined")
       ELSE LET sent == TruncateMessage(message, ModuleGlobals["PUSHOVER_MAX_CHARS"])
                loop == PostLoop(token, users, sent, title, resp, 1)
            IN IF loop.errors # <<>>
               THEN [raised |-> "RuntimeError", msg |-> "Pushover failures:",
                     users |-> users, posts |-> loop.posts,
                     errors |-> loop.errors, results |-> <<>>]
               ELSE [raised |-> "none", msg |-> "", users |-> users,
                     posts |-> loop.posts, errors |-> <<>>,
                     results |-> loop.results]

----------------------------------------------------------------------------
(* normalize_text, sha256, load_last, save_state, write_diff: lines 71-96 *)

\* A mutant of normalize_text: the pattern \s in place of \s+, so that every
\* whitespace character becomes a space of its own
normalize_text_PerChar(s) ==
    Strip([i \in 1..Len(s) |-> IF IsSpace(s[i]) THEN " " ELSE s[i]])

normalize_text(s) == Strip(SubWhitespace(Replace(s, "nbsp", " ")))

MissingSelectorPrefix ==
    <<"_", "_", "M", "I", "S", "S", "I", "N", "G", "_", "S", "E", "L", "E", "C",
      "T", "O", "R", "_", "_", " ">>

\* line 159: f"__MISSING_SELECTOR__ {content_sel} URL={target_url}"
Sentinel(content_sel, target_url) ==
    MissingSelectorPrefix \o content_sel \o <<" ", "U", "R", "L", "=">> \o target_url

\* hashlib.sha256(s.encode("utf-8")).hexdigest(), tabulated with the real
\* digests of the strings a run of the model can hash
sha256(s) ==
    CASE s = <<>> ->
           "e3b0c44298fc1c149afbf4c8996fb92427ae41e4649b934ca495991b7852b855"
      [] s = <<"a">> ->
           "ca978112ca1bbdcafac231b39a23dc4da786eff8147c4e72b9807785afee48bb"
      [] s = <<"b">> ->
           "3e23e8160039594a33894f6564e1b1348bbd7a0088d42c4acb73eeaed59c009d"
      [] s = <<"a", " ", "b">> ->
           "c8687a08aa5d6ed2044328fa6a697ab8e96dc34291e8c2034ae8c38e6fcc6d65"
      [] s = Sentinel(<<"#", "c">>, <<"t">>) ->
           "d1c5a2ad686737f5aa0a5ccb65cb10509acf641d5934904dde2e3b13c78f8933"
      [] s = Sentinel(<<"b", "o", "d", "y">>, <<"t">>) ->
           "d7c1c11e4c24a81e6e3b447d3dfccf37c9e348e9c61d26bbd5834d3a4cc09eee"

\* The state file: absent, not parseable as JSON, or the record save_state wrote
Absent == [kind |-> "absent"]

Malformed == [kind |-> "malformed"]

Record(hash, text, timestamp) ==
    [kind |-> "record", hash |-> hash, text |-> text, timestamp |-> timestamp]

\* A mutant of load_last: a file that does not parse is taken as no file
load_last_Lenient(f) ==
    IF f.kind = "record"
    THEN [raised |-> "none", found |-> TRUE, value |-> f]
    ELSE [raised |-> "none", found |-> FALSE, value |-> Absent]

\* lines 80-83: None, the parsed record, or json.JSONDecodeError
load_last(f) ==
    IF f.kind = "absent" THEN [raised |-> "none", found |-> FALSE, value |-> Absent]
    ELSE IF f.kind = "malformed"
    THEN [raised |-> "JSONDecodeError", found |-> FALSE, value |-> Absent]
    ELSE [raised |-> "none", found |-> TRUE, value |-> f]

\* lines 85-86: the file's content after save_state(data)
save_state(data) == Record(data.hash, data.text, data.timestamp)

\* difflib's _format_range_unified(start, stop) for start = 0
FormatRange(length) ==
    IF length = 1 THEN <<"1">> ELSE <<"0", ",", "0">>

\* lines 88-96, for texts of at most one line each (normalize_text leaves no
\* line boundary in a text): the lines of the unified diff, joined by "\n"
write_diff(old, new) ==
    LET a == SplitLines(old)
        b == SplitLines(new)
        hunk == <<"@", "@", " ", "-">> \o FormatRange(Len(a)) \o <<" ", "+">>
                \o FormatRange(Len(b)) \o <<" ", "@", "@">>
        minus == [i \in 1..Len(a) |-> <<"-">> \o a[i]]
        plus  == [i \in 1..Len(b) |-> <<"+">> \o b[i]]
    IN IF a = b THEN <<>>
       ELSE Join(<<"\n">>,
                 << <<"-", "-", "-", " ", "b", "e", "f", "o", "r", "e">>,
                    <<"+", "+", "+", " ", "a", "f", "t", "e", "r">>,
                    hunk >> \o minus \o plus)

----------------------------------------------------------------------------
(* Inputs of a run *)

\* Wall-clock times of day in America/Chicago, in minutes after midnight:
\* 00:00, 06:59, 07:00, 12:00 and 23:59
Times == {0, 6 * 60 + 59, 7 * 60, 12 * 60, 23 * 60 + 59}

\* A mutant of QuietHours: the window closed at 07:00 instead of open
QuietHoursInclusive(t) == 0 <= t /\ t <= 7 * 60

\* line 101: time(0, 0) <= now < time(7, 0)
QuietHours(t) == 0 <= t /\ t < 7 * 60

\* What page.locator(content_sel).inner_text() may return
PageContents ==
    {<<"a">>, <<"a", " ", " ", "b">>, <<"a", "nbsp", "b">>, <<" ", "b", "\n">>, <<" ">>}

\* What the browser session of lines 119-161 may end in: the text of the
\* selected region, a PWTimeoutError of wait_for_selector (line 149), or an
\* exception of the login and navigation steps that nothing catches
FetchOutcomes ==
    {[kind |-> "found", raw |-> c] : c \in PageContents}
    \cup {[kind |-> "selector_timeout", raw |-> <<"<", ">">>],
          [kind |-> "error", raw |-> <<>>]}

\* strftime("%Y-%m-%d_%H-%M-%S"): the clock at second resolution
Stamp(c) == c \div TicksPerSecond

None == "None"

EmptyDir == [n \in {} |-> <<>>]

\* Path.write_text / page.screenshot(path=...): creates or replaces the file
WriteFile(dir, name, data) ==
    [n \in DOMAIN dir \cup {name} |-> IF n = name THEN data ELSE dir[n]]

NoReturn ==
    [raised |-> "none", msg |-> "", users |-> <<>>, posts |-> <<>>,
     errors |-> <<>>, results |-> <<>>]

\* line 175
NoChangeMessage ==
    <<"R", "i", "c", "h", ",", " ", "t", "h", "e", "r", "e", " ", "a", "r", "e",
      "n", "'", "t", " ", "a", "n", "y", " ", "g", "a", "m", "e", "s", " ", "r",
      "n", ".", " ", "S", "t", "o", "p", " ", "f", "u", "c", "k", "i", "n", "g",
      " ", "c", "h", "e", "c", "k", "i", "n", "g">>

\* line 188: f"CHANGE DETECTED: {new_text}"
ChangeMessage(text) ==
    <<"C", "H", "A", "N", "G", "E", " ", "D", "E", "T", "E", "C", "T", "E", "D",
      ":", " ">> \o text

----------------------------------------------------------------------------
(* The state machine *)

Init ==
    /\ pc = "idle"
    /\ runs = 0
    /\ clock = 0
    /\ env = FullEnv
    /\ now_ct = 0
    /\ stateFile \in {Absent, Malformed}
    /\ archive = EmptyDir
    /\ last_hash = None
    /\ last_text = <<>>
    /\ content = <<>>
    /\ new_text = <<>>
    /\ new_hash = None
    /\ now = 0
    /\ raised = "none"
    /\ branch = "none"
    /\ launched = FALSE
    /\ fetchKind = "none"
    /\ posts = <<>>
    /\ sendCalls = <<>>
    /\ sendReturn = NoReturn
    /\ sendResp = <<>>
    /\ writes = <<>>
    /\ saves = 0
    /\ stateFile0 = stateFile
    /\ archive0 = EmptyDir
    /\ prevChangeFailed = FALSE

\* The scheduler starts the script: lines 14-20 (load_dotenv, the directories)
Launch ==
    /\ pc \in {"idle", "exited"}
    /\ runs < MaxRuns
    /\ runs' = runs + 1
    /\ \E e \in Envs : env' = e
    /\ pc' = "gate"
    /\ now_ct' = 0
    /\ last_hash' = None
    /\ last_text' = <<>>
    /\ content' = <<>>
    /\ new_text' = <<>>
    /\ new_hash' = None
    /\ now' = 0
    /\ raised' = "none"
    /\ branch' = "none"
    /\ launched' = FALSE
    /\ fetchKind' = "none"
    /\ posts' = <<>>
    /\ sendCalls' = <<>>
    /\ sendReturn' = NoReturn
    /\ sendResp' = <<>>
    /\ writes' = <<>>
    /\ saves' = 0
    /\ stateFile0' = stateFile
    /\ archive0' = archive
    /\ prevChangeFailed' = (branch = "change" /\ raised # "none")
    /\ UNCHANGED <<clock, stateFile, archive>>

\* lines 99-103
QuietGate ==
    /\ pc = "gate"
    /\ \E t \in Times :
        /\ now_ct' = t
        /\ IF QuietHours(t)
           THEN pc' = "exited" /\ branch' = "quiet"
           ELSE pc' = "config" /\ branch' = branch
    /\ UNCHANGED <<runs, clock, env, stateFile, archive, last_hash, last_text,
                   content, new_text, new_hash, now, raised, launched,
                   fetchKind, posts, sendCalls, sendReturn, sendResp, writes,
                   saves, stateFile0, archive0,
                   prevChangeFailed>>

\* lines 105-113: os.environ[...] raises KeyError for a variable that is not set
ReadConfig ==
    /\ pc = "config"
    /\ IF \E i \in 1..Len(RequiredVars) : RequiredVars[i] \notin DOMAIN env
       THEN pc' = "exited" /\ raised' = "KeyError"
       ELSE pc' = "load" /\ raised' = raised
    /\ UNCHANGED <<runs, clock, env, now_ct, stateFile, archive, last_hash,
                   last_text, content, new_text, new_hash, now, branch,
                   launched, fetchKind, posts, sendCalls, sendReturn, sendResp,
                   writes, saves, stateFile0, archive0,
                   prevChangeFailed>>

\* lines 115-117
LoadLast ==
    /\ pc = "load"
    /\ LET last == load_last(stateFile)
       IN IF last.raised # "none"
          THEN /\ pc' = "exited"
               /\ raised' = last.raised
               /\ UNCHANGED <<last_hash, last_text>>
          ELSE /\ pc' = "fetch"
               /\ raised' = raised
               /\ last_hash' = IF last.found THEN last.value.hash ELSE None
               /\ last_text' = IF last.found THEN last.value.text ELSE <<>>
    /\ UNCHANGED <<runs, clock, env, now_ct, stateFile, archive, content,
                   new_text, new_hash, now, branch, launched, fetchKind, posts,
                   sendCalls, sendReturn, sendResp, writes, saves, stateFile0,
                   archive0,
                   prevChangeFailed>>

\* lines 119-161: the browser session.  A time-out of wait_for_load_state is
\* swallowed (lines 133-137, 141-144) and changes nothing.
Fetch ==
    /\ pc = "fetch"
    /\ launched' = TRUE
    /\ \E o \in FetchOutcomes :
        LET content_sel == EnvironGet(env, "CONTENT_SELECTOR", <<"b", "o", "d", "y">>)
            target_url == env["TARGET_URL"]
            stamp == Stamp(clock)
            png == <<stamp, ".missing_selector.png">>
            html == <<stamp, ".missing_selector.html">>
        IN /\ fetchKind' = o.kind
           /\ CASE o.kind = "error" ->
                     /\ pc' = "exited"
                     /\ raised' = "PlaywrightError"
                     /\ UNCHANGED <<content, archive, writes>>
                [] o.kind = "found" ->
                     /\ pc' = "hash"
                     /\ content' = o.raw
                     /\ UNCHANGED <<raised, archive, writes>>
                [] o.kind = "selector_timeout" ->
                     \* lines 151-159; line 152 evaluates the name TZ
                     IF Bound("TZ")
                     THEN /\ archive' = WriteFile(
                                 WriteFile(archive, png, <<"P", "N", "G">>),
                                 html, o.raw)
                          /\ writes' = writes \o <<png, html>>
                          /\ content' = Sentinel(content_sel, target_url)
                          /\ pc' = "hash"
                          /\ raised' = raised
                     ELSE /\ pc' = "exited"
                          /\ raised' = "NameError"
                          /\ UNCHANGED <<content, archive, writes>>
    /\ UNCHANGED <<runs, clock, env, now_ct, stateFile, last_hash, last_text,
                   new_text, new_hash, now, branch, posts, sendCalls,
                   sendReturn, sendResp, saves, stateFile0, archive0,
                   prevChangeFailed>>

\* lines 163-165 and the tests of lines 167 and 173.  The clock has advanced by
\* some amount since it was last read.
NormalizeHash ==
    /\ pc = "hash"
    /\ \E c \in clock..(IF clock < MaxClock THEN clock + 1 ELSE clock) :
        /\ clock' = c
        /\ now' = Stamp(c)
    /\ new_text' = normalize_text(content)
    /\ new_hash' = sha256(new_text')
    /\ IF last_hash = None
       THEN pc' = "first_save" /\ branch' = "first"
       ELSE IF new_hash' = last_hash
       THEN pc' = "nochange" /\ branch' = "nochange"
       ELSE pc' = "change_text" /\ branch' = "change"
    /\ UNCHANGED <<runs, env, now_ct, stateFile, archive, last_hash, last_text,
                   content, raised, launched, fetchKind, posts, sendCalls,
                   sendReturn, sendResp, writes, saves, stateFile0, archive0,
                   prevChangeFailed>>

\* A mutant of NewRecord: the hash of the previous record is kept
NewRecordStaleHash(h, t, ts) == [hash |-> last_hash, text |-> t, timestamp |-> ts]

\* lines 169 and 184: {"hash": new_hash, "text": new_text, "timestamp": now}
NewRecord(h, t, ts) == [hash |-> h, text |-> t, timestamp |-> ts]

\* lines 168-169
FirstRunSave ==
    /\ pc = "first_save"
    /\ stateFile' = save_state(NewRecord(new_hash, new_text, now))
    /\ saves' = saves + 1
    /\ pc' = "first_write"
    /\ UNCHANGED <<runs, clock, env, now_ct, archive, last_hash, last_text,
                   content, new_text, new_hash, now, raised, branch, launched,
                   fetchKind, posts, sendCalls, sendReturn, sendResp, writes,
                   stateFile0, archive0,
                   prevChangeFailed>>

\* A mutant of FirstRunWrite: the first run notifies as a change run does
FirstRunWriteNotifying ==
    /\ pc = "first_write"
    /\ archive' = WriteFile(archive, <<now, ".txt">>, new_text)
    /\ writes' = Append(writes, <<now, ".txt">>)
    /\ \E resp \in [1..MaxUsers -> Responses] :
        LET r == send_pushover(ChangeMessage(new_text), Watcher, env, resp)
        IN /\ sendCalls' = Append(sendCalls, ChangeMessage(new_text))
           /\ sendReturn' = r
           /\ sendResp' = SubSeq(resp, 1, Len(r.posts))
           /\ posts' = posts \o r.posts
           /\ raised' = r.raised
           /\ pc' = "exited"
    /\ UNCHANGED <<runs, clock, env, now_ct, stateFile, last_hash, last_text,
                   content, new_text, new_hash, now, branch, launched, fetchKind,
                   saves, stateFile0, archive0,
                   prevChangeFailed>>

\* A mutant of FirstRunWrite: the first run writes a diff against the empty
\* previous text as well
FirstRunWriteDiffing ==
    /\ pc = "first_write"
    /\ archive' = WriteFile(WriteFile(archive, <<now, ".txt">>, new_text),
                            <<now, ".diff.txt">>, write_diff(last_text, new_text))
    /\ writes' = writes \o << <<now, ".txt">>, <<now, ".diff.txt">> >>
    /\ pc' = "exited"
    /\ UNCHANGED <<runs, clock, env, now_ct, stateFile, last_hash, last_text,
                   content, new_text, new_hash, now, raised, branch, launched,
                   fetchKind, posts, sendCalls, sendReturn, sendResp, saves,
                   stateFile0, archive0, prevChangeFailed>>

\* lines 170-171
FirstRunWrite ==
    /\ pc = "first_write"
    /\ archive' = WriteFile(archive, <<now, ".txt">>, new_text)
    /\ writes' = Append(writes, <<now, ".txt">>)
    /\ pc' = "exited"
    /\ UNCHANGED <<runs, clock, env, now_ct, stateFile, last_hash, last_text,
                   content, new_text, new_hash, now, raised, branch, launched,
                   fetchKind, posts, sendCalls, sendReturn, sendResp, saves,
                   stateFile0, archive0,
                   prevChangeFailed>>

\* A call of send_pushover from main: the run ends with what the call raises
Notify(message) ==
    \E resp \in [1..MaxUsers -> Responses] :
        LET r == send_pushover(message, Watcher, env, resp)
        IN /\ sendCalls' = Append(sendCalls, message)
           /\ sendReturn' = r
           /\ sendResp' = SubSeq(resp, 1, Len(r.posts))
           /\ posts' = posts \o r.posts
           /\ raised' = r.raised
           /\ pc' = "exited"

\* A mutant of NoChange: the record is saved again on the no-change branch
NoChangeSaving ==
    /\ pc = "nochange"
    /\ stateFile' = save_state(NewRecord(new_hash, new_text, now))
    /\ saves' = saves + 1
    /\ Notify(NoChangeMessage)
    /\ UNCHANGED <<runs, clock, env, now_ct, archive, last_hash, last_text,
                   content, new_text, new_hash, now, branch, launched, fetchKind,
                   writes, stateFile0, archive0,
                   prevChangeFailed>>

\* A mutant of NoChange: a snapshot text file is written on the no-change branch
NoChangeArchiving ==
    /\ pc = "nochange"
    /\ archive' = WriteFile(archive, <<now, ".txt">>, new_text)
    /\ writes' = Append(writes, <<now, ".txt">>)
    /\ Notify(NoChangeMessage)
    /\ UNCHANGED <<runs, clock, env, now_ct, stateFile, last_hash, last_text,
                   content, new_text, new_hash, now, branch, launched, fetchKind,
                   saves, stateFile0, archive0,
                   prevChangeFailed>>

\* lines 174-176
NoChange ==
    /\ pc = "nochange"
    /\ Notify(NoChangeMessage)
    /\ UNCHANGED <<runs, clock, env, now_ct, stateFile, archive, last_hash,
                   last_text, content, new_text, new_hash, now, branch,
                   launched, fetchKind, writes, saves, stateFile0, archive0,
                   prevChangeFailed>>

\* A mutant of ChangeWriteText: the notification is sent before anything is
\* written
ChangeTextNotifyFirst ==
    /\ pc = "change_text"
    /\ Notify(ChangeMessage(new_text))
    /\ UNCHANGED <<runs, clock, env, now_ct, stateFile, archive, last_hash,
                   last_text, content, new_text, new_hash, now, branch, launched,
                   fetchKind, writes, saves, stateFile0, archive0,
                   prevChangeFailed>>

\* lines 178-181
ChangeWriteText ==
    /\ pc = "change_text"
    /\ archive' = WriteFile(archive, <<now, ".txt">>, new_text)
    /\ writes' = Append(writes, <<now, ".txt">>)
    /\ pc' = "change_diff"
    /\ UNCHANGED <<runs, clock, env, now_ct, stateFile, last_hash, last_text,
                   content, new_text, new_hash, now, raised, branch, launched,
                   fetchKind, posts, sendCalls, sendReturn, sendResp, saves,
                   stateFile0, archive0,
                   prevChangeFailed>>

\* line 182, with diff_text of line 180
ChangeWriteDiff ==
    /\ pc = "change_diff"
    /\ archive' = WriteFile(archive, <<now, ".diff.txt">>, write_diff(last_text, new_text))
    /\ writes' = Append(writes, <<now, ".diff.txt">>)
    /\ pc' = "change_save"
    /\ UNCHANGED <<runs, clock, env, now_ct, stateFile, last_hash, last_text,
                   content, new_text, new_hash, now, raised, branch, launched,
                   fetchKind, posts, sendCalls, sendReturn, sendResp, saves,
                   stateFile0, archive0,
                   prevChangeFailed>>

\* A mutant of ChangeSave: the change branch does not save the record
ChangeSaveSkipped ==
    /\ pc = "change_save"
    /\ pc' = "change_notify"
    /\ UNCHANGED <<runs, clock, env, now_ct, stateFile, archive, last_hash,
                   last_text, content, new_text, new_hash, now, raised, branch,
                   launched, fetchKind, posts, sendCalls, sendReturn, sendResp,
                   writes, saves, stateFile0, archive0,
                   prevChangeFailed>>

\* line 184
ChangeSave ==
    /\ pc = "change_save"
    /\ stateFile' = save_state(NewRecord(new_hash, new_text, now))
    /\ saves' = saves + 1
    /\ pc' = "change_notify"
    /\ UNCHANGED <<runs, clock, env, now_ct, archive, last_hash, last_text,
                   content, new_text, new_hash, now, raised, branch, launched,
                   fetchKind, posts, sendCalls, sendReturn, sendResp, writes,
                   stateFile0, archive0,
                   prevChangeFailed>>

\* A mutant of ChangeNotify: the change run sends the status phrase of line 175
ChangeNotifyStatusPhrase ==
    /\ pc = "change_notify"
    /\ Notify(NoChangeMessage)
    /\ UNCHANGED <<runs, clock, env, now_ct, stateFile, archive, last_hash,
                   last_text, content, new_text, new_hash, now, branch, launched,
                   fetchKind, writes, saves, stateFile0, archive0,
                   prevChangeFailed>>

\* lines 186-188
ChangeNotify ==
    /\ pc = "change_notify"
    /\ Notify(ChangeMessage(new_text))
    /\ UNCHANGED <<runs, clock, env, now_ct, stateFile, archive, last_hash,
                   last_text, content, new_text, new_hash, now, branch,
                   launched, fetchKind, writes, saves, stateFile0, archive0,
                   prevChangeFailed>>

Next ==
    \/ Launch
    \/ QuietGate
    \/ ReadConfig
    \/ LoadLast
    \/ Fetch
    \/ NormalizeHash
    \/ FirstRunSave
    \/ FirstRunWrite
    \/ NoChange
    \/ ChangeWriteText
    \/ ChangeWriteDiff
    \/ ChangeSave
    \/ ChangeNotify

Spec == Init /\ [][Next]_vars

----------------------------------------------------------------------------
(* Vocabulary of the properties *)

Exited == pc = "exited"

\* The run got past the fetch step: lines 163-165 were executed
PastFetch == branch \in {"first", "nochange", "change"}

\* text occurs in msg
Contains(msg, text) ==
    \E k \in 0..(Len(msg) - Len(text)) : SubSeq(msg, k + 1, k + Len(text)) = text

Users == get_pushover_users(env)

TokenSet == Strip(GetenvOrEmpty(env, "PUSHOVER_APP_TOKEN")) # <<>>

RequiredSet == \A i \in 1..Len(RequiredVars) : RequiredVars[i] \in DOMAIN env

\* The i-th POST of the last send_pushover call failed
Failed(i) == sendResp[i].exc \/ sendResp[i].status # 200

----------------------------------------------------------------------------
(* C1: after a run that got past the fetch with a prior record whose hash   *)
(* differs from the new one (change branch), exactly one snapshot text file *)
(* and exactly one diff file were written under the same timestamp, the     *)
(* state file holds the new hash and text, and a notification containing    *)
(* the new content was sent to every configured recipient.                  *)
(* Stated for the runs whose token and recipients are configured.           *)
(* The code does not do this: the name PUSHOVER_MAX_CHARS of line 43 is     *)
(* bound nowhere, so send_pushover raises NameError before its first POST.  *)
C1_ChangeRunEffects ==
    (Exited /\ branch = "change" /\ TokenSet /\ Len(Users) >= 1) =>
        /\ writes = << <<now, ".txt">>, <<now, ".diff.txt">> >>
        /\ stateFile.kind = "record"
        /\ stateFile.hash = new_hash
        /\ stateFile.text = new_text
        /\ \A i \in 1..Len(Users) :
              \E j \in 1..Len(posts) :
                  /\ posts[j].user = Users[i]
                  /\ Contains(posts[j].message, new_text)

(* C2: in every reachable state, also after runs that ended in an error, a  *)
(* record held by the state file has hash = sha256(text).                   *)
C2_HashOfText ==
    stateFile.kind = "record" => stateFile.hash = sha256(stateFile.text)

C2_Witness ==
    Exited /\ raised # "none" /\ stateFile.kind = "record" /\ stateFile.text # <<>>

(* C3: after every run that completed the fetch step, whichever branch it   *)
(* took and whether or not its notification succeeded, the text in the      *)
(* state file is the normalized text that run fetched.                      *)
C3_StoreHoldsFetchedText ==
    (Exited /\ PastFetch) =>
        /\ stateFile.kind = "record"
        /\ stateFile.text = normalize_text(content)

C3_Witness ==
    /\ Exited
    /\ branch = "change"
    /\ raised # "none"
    /\ stateFile0.kind = "record"
    /\ stateFile0.text # normalize_text(content)

(* C4, as claimed: every run that finds a prior record and completes the    *)
(* fetch calls save_state, on the no-change branch too, so the stored       *)
(* timestamp is that of the latest such run.                                *)
C4_SavedOnEveryRun ==
    (Exited /\ branch \in {"nochange", "change"}) =>
        /\ saves >= 1
        /\ stateFile.kind = "record"
        /\ stateFile.timestamp = now

(* C4, amended: a run that finds a prior record saves the record exactly    *)
(* once if it detects a change, and not at all if it detects none; a        *)
(* no-change run leaves the state file, timestamp included, as it found it. *)
C4_SavedOnChangeOnly ==
    /\ (Exited /\ branch = "change") =>
          /\ saves = 1
          /\ stateFile = Record(new_hash, new_text, now)
    /\ (Exited /\ branch = "nochange") =>
          /\ saves = 0
          /\ stateFile = stateFile0

C4_Witness ==
    /\ Exited
    /\ branch = "nochange"
    /\ stateFile.kind = "record"
    /\ stateFile.timestamp # now

(* C5: a no-change run (a prior record exists and the fetched text          *)
(* normalizes to the stored text) leaves the hash and the text of the state *)
(* file as they were and writes no diff file and no snapshot text file.     *)
C5_NoChangeFrame ==
    (Exited /\ branch = "nochange") =>
        /\ normalize_text(content) = stateFile0.text
        /\ stateFile.hash = stateFile0.hash
        /\ stateFile.text = stateFile0.text
        /\ writes = <<>>
        /\ archive = archive0

C5_Witness ==
    /\ Exited
    /\ branch = "nochange"
    /\ content # stateFile0.text
    /\ \E n \in DOMAIN archive0 : n[2] = ".diff.txt"

(* C6: a first run (no prior record, fetch completed) stores the record of  *)
(* the normalized fetched text and its sha256, writes exactly one archive   *)
(* text file and no diff file, and ends without sending a notification.     *)
C6_FirstRun ==
    (Exited /\ branch = "first") =>
        /\ stateFile0.kind = "absent"
        /\ stateFile.kind = "record"
        /\ stateFile.text = normalize_text(content)
        /\ stateFile.hash = sha256(normalize_text(content))
        /\ writes = << <<now, ".txt">> >>
        /\ archive[<<now, ".txt">>] = normalize_text(content)
        /\ sendCalls = <<>>
        /\ posts = <<>>
        /\ raised = "none"

C6_Witness ==
    /\ Exited
    /\ branch = "first"
    /\ content = <<"a", " ", " ", "b">>
    /\ stateFile.text = <<"a", " ", "b">>

(* C7: a run whose content selector is not found within the wait does not   *)
(* crash: it writes the debug image and the markup file, takes the sentinel *)
(* string as the content and stores its normalized form, so that a next run *)
(* that misses the selector too takes the no-change branch.                 *)
(* The code does not do this: the name TZ of line 152 is bound nowhere, so  *)
(* the except clause raises NameError before it writes anything.            *)
C7_SelectorMiss ==
    (Exited /\ fetchKind = "selector_timeout") =>
        LET sentinel == normalize_text(
                Sentinel(EnvironGet(env, "CONTENT_SELECTOR", <<"b", "o", "d", "y">>),
                         env["TARGET_URL"]))
        IN /\ PastFetch
           /\ \E i \in 1..Len(writes) : writes[i][2] = ".missing_selector.png"
           /\ \E i \in 1..Len(writes) : writes[i][2] = ".missing_selector.html"
           /\ stateFile.kind = "record"
           /\ stateFile.text = sentinel
           /\ (stateFile0.kind = "record" /\ stateFile0.text = sentinel)
                 => branch = "nochange"

(* C8: a run with a required configuration value missing (one of the        *)
(* variables main reads, the notification token, or the recipients) ends in *)
(* an error before the browser fetch begins and before the state file or    *)
(* the archive is written.                                                  *)
(* The code does not do this: the token and the recipients are read only by *)
(* send_pushover (lines 34-40), which main calls after the fetch.           *)
C8_ConfigErrorsFirst ==
    (branch # "quiet" /\ (~RequiredSet \/ ~TokenSet \/ Users = <<>>)) =>
        /\ ~launched
        /\ saves = 0
        /\ writes = <<>>
        /\ Exited => raised # "none"

(* C9: a run that starts at a local time t with 00:00 <= t < 07:00 ends     *)
(* without fetching, comparing or notifying and leaves the state file and   *)
(* the archive as they were; a run that starts at 07:00 or later is not     *)
(* suppressed.                                                              *)
C9_QuietHoursGate ==
    /\ (Exited /\ 0 <= now_ct /\ now_ct < 7 * 60) =>
          /\ branch = "quiet"
          /\ raised = "none"
          /\ ~launched
          /\ new_hash = None
          /\ sendCalls = <<>>
          /\ posts = <<>>
          /\ stateFile = stateFile0
          /\ archive = archive0
    /\ (pc \notin {"idle", "gate"} /\ now_ct >= 7 * 60) =>
          /\ branch # "quiet"
          /\ (Exited /\ RequiredSet /\ stateFile0.kind # "malformed") => launched

C9_Witness ==
    /\ Exited
    /\ now_ct = 6 * 60 + 59
    /\ branch = "quiet"
    /\ RequiredSet
    /\ stateFile.kind = "record"

(* C10: a call of send_pushover with a token and n >= 1 recipients performs *)
(* exactly one POST per recipient, going on after a failed one; it raises   *)
(* one error if and only if at least one recipient failed, that error names *)
(* every failed recipient and no successful one, and otherwise it returns   *)
(* the list of the successful results.                                      *)
(* The code does not do this: with a token and recipients the call raises   *)
(* NameError at line 43 and performs no POST.                               *)
C10_OnePostPerRecipient ==
    (sendCalls # <<>> /\ TokenSet /\ Len(sendReturn.users) >= 1) =>
        LET r == sendReturn
            n == Len(r.users)
        IN /\ Len(r.posts) = n
           /\ Len(sendResp) = n
           /\ \A i \in 1..n : i <= Len(r.posts) => r.posts[i].user = r.users[i]
           /\ r.raised # "none" <=> \E i \in 1..Len(sendResp) : Failed(i)
           /\ r.raised # "none" =>
                 /\ r.raised = "RuntimeError"
                 /\ {r.errors[k].user : k \in 1..Len(r.errors)}
                       = {r.users[i] : i \in {j \in 1..Len(sendResp) : Failed(j)}}
           /\ r.raised = "none" => Len(r.results) = n

(* C11: a message passed to send_pushover that is longer than the character *)
(* cap is sent cut and closed with "..." so that what is sent has the       *)
(* length of the cap; a message no longer than the cap is sent as it is.    *)
(* Stated without the value of the cap: every POST of a call with a token   *)
(* and recipients carries the message, whole or cut and closed with "...".  *)
(* The code does not do this: the cap is the name PUSHOVER_MAX_CHARS, bound *)
(* nowhere, so line 43 raises NameError and no message is sent at all.      *)
C11_MessageTruncation ==
    (sendCalls # <<>> /\ TokenSet /\ Len(sendReturn.users) >= 1) =>
        LET m == sendCalls[Len(sendCalls)]
            r == sendReturn
        IN /\ r.posts # <<>>
           /\ \A j \in 1..Len(r.posts) :
                 LET sent == r.posts[j].message
                     n == Len(sent)
                 IN \/ sent = m
                    \/ /\ n >= 3
                       /\ n < Len(m)
                       /\ SubSeq(sent, n - 2, n) = <<".", ".", ".">>
                       /\ SubSeq(sent, 1, n - 3) = SubSeq(m, 1, n - 3)

(* C12: the archive is append-only: no run, in any sequence of runs, also   *)
(* of runs whose timestamps coincide at second resolution, changes or       *)
(* removes an archive entry that an earlier run wrote.                      *)
(* The code does not do this: the file name is the timestamp alone, and     *)
(* write_text replaces an existing file of that name.                       *)
C12_ArchiveAppendOnly ==
    \A n \in DOMAIN archive0 :
        n \in DOMAIN archive /\ archive[n] = archive0[n]

----------------------------------------------------------------------------
(* normalize_text as a function of its input: every string over an ordinary *)
(* character, the space, the newline and U+00A0, up to NormMaxLen           *)
(* characters, is normalized, and the result is normalized again.           *)

NormMaxLen == 4

NormAlphabet == {"a", " ", "\n", "nbsp"}

NormInputs == UNION {[1..k -> NormAlphabet] : k \in 0..NormMaxLen}

NormInit ==
    /\ pc = "normalize"
    /\ content \in NormInputs
    /\ new_text = <<>>
    /\ runs = 0
    /\ clock = 0
    /\ env = FullEnv
    /\ now_ct = 0
    /\ stateFile = Absent
    /\ archive = EmptyDir
    /\ last_hash = None
    /\ last_text = <<>>
    /\ new_hash = None
    /\ now = 0
    /\ raised = "none"
    /\ branch = "none"
    /\ launched = FALSE
    /\ fetchKind = "none"
    /\ posts = <<>>
    /\ sendCalls = <<>>
    /\ sendReturn = NoReturn
    /\ sendResp = <<>>
    /\ writes = <<>>
    /\ saves = 0
    /\ stateFile0 = Absent
    /\ archive0 = EmptyDir
    /\ prevChangeFailed = FALSE

\* line 163: new_text = normalize_text(content); runs counts the applications
NormApply ==
    /\ pc = "normalize"
    /\ new_text' = normalize_text(content)
    /\ runs' = runs + 1
    /\ pc' = "normalized"
    /\ UNCHANGED <<clock, env, now_ct, stateFile, archive, last_hash, last_text,
                   content, new_hash, now, raised, branch, launched, fetchKind,
                   posts, sendCalls, sendReturn, sendResp, writes, saves,
                   stateFile0, archive0,
                   prevChangeFailed>>

\* The result is given to normalize_text once more
NormFeedBack ==
    /\ pc = "normalized"
    /\ runs < 2
    /\ content' = new_text
    /\ pc' = "normalize"
    /\ UNCHANGED <<runs, clock, env, now_ct, stateFile, archive, last_hash,
                   last_text, new_text, new_hash, now, raised, branch, launched,
                   fetchKind, posts, sendCalls, sendReturn, sendResp, writes,
                   saves, stateFile0, archive0,
                   prevChangeFailed>>

NormNext == NormApply \/ NormFeedBack

NormSpec == NormInit /\ [][NormNext]_vars

(* C13: normalize_text(normalize_text(s)) = normalize_text(s) for every s   *)
(* built from ordinary characters, spaces, newlines and non-breaking        *)
(* spaces, and the result has no leading or trailing whitespace and no run  *)
(* of two or more whitespace characters.                                    *)
C13_NormalizeIdempotent ==
    pc = "normalized" =>
        /\ new_text # <<>> => ~IsSpace(new_text[1]) /\ ~IsSpace(new_text[Len(new_text)])
        /\ \A i \in 1..(Len(new_text) - 1) :
              ~(IsSpace(new_text[i]) /\ IsSpace(new_text[i + 1]))
        /\ runs = 2 => new_text = content

C13_Witness ==
    /\ pc = "normalized"
    /\ runs = 2
    /\ new_text = <<"a", " ", "a">>

----------------------------------------------------------------------------
(* C14: in the change branch both archive writes and the save of the state  *)
(* file come before the first notification POST; so a run whose             *)
(* notification ends in an error ends with the state file holding the new   *)
(* record, and a next run that fetches the same content takes the no-change *)
(* branch and sends no change notification for it.                          *)
C14_SaveBeforeNotify ==
    LET written ==
            /\ writes = << <<now, ".txt">>, <<now, ".diff.txt">> >>
            /\ saves = 1
            /\ stateFile = Record(new_hash, new_text, now)
        changeSent ==
            \/ \E i \in 1..Len(sendCalls) : sendCalls[i] = ChangeMessage(new_text)
            \/ \E j \in 1..Len(posts) : posts[j].message = ChangeMessage(new_text)
    IN /\ pc = "change_notify" => (written /\ posts = <<>> /\ sendCalls = <<>>)
       /\ (branch = "change" /\ (sendCalls # <<>> \/ posts # <<>>)) => written
       /\ (Exited /\ branch = "change" /\ raised # "none") => written
       /\ (prevChangeFailed /\ PastFetch /\ normalize_text(content) = stateFile0.text)
             => (branch = "nochange" /\ ~changeSent)

C14_Witness ==
    /\ prevChangeFailed
    /\ Exited
    /\ branch = "nochange"
    /\ stateFile0.text = normalize_text(content)
    /\ stateFile0.text # <<>>

(* C15: the differ runs only when a previous record exists: in every        *)
(* reachable state each diff file of the archive was written by a run on    *)
(* the change branch that had found a record, and has a snapshot text file  *)
(* of the same timestamp beside it; first runs, no-change runs and          *)
(* quiet-hours runs write no diff file.                                     *)
C15_DiffOnlyOnChange ==
    LET IsDiff(n) == n[2] = ".diff.txt"
    IN /\ \A n \in DOMAIN archive :
             IsDiff(n) =>
                /\ <<n[1], ".txt">> \in DOMAIN archive
                /\ archive[n] # <<>>
                /\ n \in DOMAIN archive0 \/ \E i \in 1..Len(writes) : writes[i] = n
       /\ \A i \in 1..Len(writes) :
             IsDiff(writes[i]) =>
                /\ branch = "change"
                /\ last_hash # None
                /\ stateFile0.kind = "record"
                /\ writes[i] = <<now, ".diff.txt">>
                /\ \E j \in 1..(i - 1) : writes[j] = <<now, ".txt">>
       /\ branch \in {"none", "quiet", "first", "nochange"} =>
             \A i \in 1..Len(writes) : ~IsDiff(writes[i])

C15_Witness ==
    /\ Exited
    /\ branch = "change"
    /\ <<now, ".diff.txt">> \in DOMAIN archive
    /\ \E n \in DOMAIN archive0 : n[2] = ".diff.txt" /\ n[1] # now

(* C16: a state file that does not parse makes the run end in an error      *)
(* raised by load_last before any fetch is attempted, with the state file   *)
(* and the archive left as they were and no notification sent; with no      *)
(* state file load_last returns None and the run takes the first-run        *)
(* branch.                                                                  *)
C16_MalformedState ==
    /\ stateFile0 = Malformed =>
          /\ pc \notin {"fetch", "hash"}
          /\ ~launched
          /\ ~PastFetch
          /\ stateFile = stateFile0
          /\ archive = archive0
          /\ sendCalls = <<>>
          /\ posts = <<>>
    /\ (Exited /\ stateFile0 = Malformed /\ branch # "quiet" /\ RequiredSet) =>
          raised = "JSONDecodeError"
    /\ (stateFile0 = Absent /\ pc = "fetch") => (raised = "none" /\ last_hash = None)
    /\ (stateFile0 = Absent /\ PastFetch) => branch = "first"

C16_Witness ==
    /\ Exited
    /\ stateFile0 = Malformed
    /\ raised = "JSONDecodeError"
    /\ now_ct = 7 * 60

(* C17: a run calls send_pushover at most once, so a configured recipient   *)
(* gets at most one POST per run; quiet-hours runs and first runs call it   *)
(* not at all, a no-change run sends nothing but the fixed status phrase    *)
(* and a change run nothing but the message that carries the new content.   *)
C17_AtMostOneSend ==
    /\ Len(sendCalls) <= 1
    /\ \A i \in 1..Len(Users) :
          Cardinality({j \in 1..Len(posts) : posts[j].user = Users[i]}) <= 1
    /\ branch \in {"none", "quiet", "first"} => (sendCalls = <<>> /\ posts = <<>>)
    /\ branch = "nochange" =>
          /\ \A i \in 1..Len(sendCalls) : sendCalls[i] = NoChangeMessage
          /\ \A j \in 1..Len(posts) : posts[j].message = NoChangeMessage
          /\ Exited => Len(sendCalls) = 1
    /\ branch = "change" =>
          /\ \A i \in 1..Len(sendCalls) : sendCalls[i] = ChangeMessage(new_text)
          /\ \A j \in 1..Len(posts) : posts[j].message = ChangeMessage(new_text)
          /\ Exited => Len(sendCalls) = 1

C17_Witness ==
    /\ Exited
    /\ branch = "change"
    /\ TokenSet
    /\ Len(Users) = 2
    /\ sendCalls = <<ChangeMessage(<<"a", " ", "b">>)>>

----------------------------------------------------------------------------
(* get_pushover_users as a function of the environment: PUSHOVER_USER_KEYS  *)
(* is unset or any string of up to UsersMaxLen characters over a key        *)
(* character, the comma and the space; PUSHOVER_USER_KEY is unset, empty,   *)
(* blank or a key.  The recipients are resolved, then send_pushover is      *)
(* called.                                                                  *)

UsersMaxLen == 3

UsersEnvs ==
    LET base == Without(FullEnv, "PUSHOVER_USER_KEYS")
        lists == UNION {[1..k -> {"k", ",", " "}] : k \in 0..UsersMaxLen}
        singles == {<<>>, <<" ">>, <<"j">>, <<" ", "j", " ">>}
        withList == {base} \cup {With(base, "PUSHOVER_USER_KEYS", l) : l \in lists}
    IN withList \cup {With(e, "PUSHOVER_USER_KEY", s) : e \in withList, s \in singles}

UsersInit ==
    /\ pc = "resolve"
    /\ env \in UsersEnvs
    /\ content = <<>>
    /\ new_text = <<>>
    /\ runs = 0
    /\ clock = 0
    /\ now_ct = 0
    /\ stateFile = Absent
    /\ archive = EmptyDir
    /\ last_hash = None
    /\ last_text = <<>>
    /\ new_hash = None
    /\ now = 0
    /\ raised = "none"
    /\ branch = "none"
    /\ launched = FALSE
    /\ fetchKind = "none"
    /\ posts = <<>>
    /\ sendCalls = <<>>
    /\ sendReturn = NoReturn
    /\ sendResp = <<>>
    /\ writes = <<>>
    /\ saves = 0
    /\ stateFile0 = Absent
    /\ archive0 = EmptyDir
    /\ prevChangeFailed = FALSE

\* line 35: users = get_pushover_users()
UsersResolve ==
    /\ pc = "resolve"
    /\ sendReturn' = [NoReturn EXCEPT !.users = get_pushover_users(env)]
    /\ pc' = "resolved"
    /\ UNCHANGED <<runs, clock, env, now_ct, stateFile, archive, last_hash,
                   last_text, content, new_text, new_hash, now, raised, branch,
                   launched, fetchKind, posts, sendCalls, sendResp, writes,
                   saves, stateFile0, archive0, prevChangeFailed>>

\* lines 33-68: the whole call
UsersSend ==
    /\ pc = "resolved"
    /\ Notify(NoChangeMessage)
    /\ UNCHANGED <<runs, clock, env, now_ct, stateFile, archive, last_hash,
                   last_text, content, new_text, new_hash, now, branch, launched,
                   fetchKind, writes, saves, stateFile0, archive0,
                   prevChangeFailed>>

UsersNext == UsersResolve \/ UsersSend

UsersSpec == UsersInit /\ [][UsersNext]_vars

\* The vocabulary of C18, stated by positions rather than by split and strip
Blank(s) == \A i \in 1..Len(s) : IsSpace(s[i])

Trimmed(s) ==
    IF Blank(s) THEN <<>>
    ELSE LET solid == {i \in 1..Len(s) : ~IsSpace(s[i])}
             first == CHOOSE i \in solid : \A j \in solid : i <= j
             last == CHOOSE i \in solid : \A j \in solid : j <= i
         IN SubSeq(s, first, last)

Cuts(s) == {0, Len(s) + 1} \cup {i \in 1..Len(s) : s[i] = ","}

NthCut(s, k) == CHOOSE c \in Cuts(s) : Cardinality({x \in Cuts(s) : x < c}) = k - 1

\* The entries of a comma-separated list, in order
Entries(s) ==
    [k \in 1..(Cardinality(Cuts(s)) - 1) |->
        SubSeq(s, NthCut(s, k) + 1, NthCut(s, k + 1) - 1)]

ListForm == GetenvOrEmpty(env, "PUSHOVER_USER_KEYS")

LegacyForm == GetenvOrEmpty(env, "PUSHOVER_USER_KEY")

\* The trimmed non-blank entries of the list
ListUsers ==
    LET kept == SelectSeq(Entries(ListForm), LAMBDA u : ~Blank(u))
    IN [i \in 1..Len(kept) |-> Trimmed(kept[i])]

LegacyUsers == IF Blank(LegacyForm) THEN <<>> ELSE <<Trimmed(LegacyForm)>>

Resolved == pc \in {"resolved", "exited"}

(* C18, as claimed: get_pushover_users returns the trimmed non-blank        *)
(* entries of the comma-separated list when that variable is set and the    *)
(* legacy single identifier otherwise, and it returns the empty list only   *)
(* when neither the list form nor the legacy form supplies a non-blank      *)
(* identifier.                                                              *)
C18_EmptyOnlyIfNeither ==
    Resolved =>
        /\ sendReturn.users = (IF ~Blank(ListForm) THEN ListUsers ELSE LegacyUsers)
        /\ sendReturn.users = <<>> => (ListUsers = <<>> /\ LegacyUsers = <<>>)

(* C18, amended: get_pushover_users returns the trimmed non-blank entries   *)
(* of the comma-separated list when that variable holds anything but        *)
(* whitespace, and the trimmed legacy identifier otherwise; it returns the  *)
(* empty list when the list variable holds nothing but commas and           *)
(* whitespace, whatever the legacy variable holds, or when the list         *)
(* variable and the legacy variable are both unset or blank, and in no      *)
(* other case; send_pushover then raises the missing-recipient error        *)
(* before any POST.                                                         *)
C18_RecipientResolution ==
    Resolved =>
        /\ sendReturn.users = (IF ~Blank(ListForm) THEN ListUsers ELSE LegacyUsers)
        /\ sendReturn.users = <<>> <=>
              \/ ~Blank(ListForm) /\ \A i \in 1..Len(ListForm) :
                                        ListForm[i] = "," \/ IsSpace(ListForm[i])
              \/ Blank(ListForm) /\ Blank(LegacyForm)
        /\ (Exited /\ sendReturn.users = <<>>) =>
              /\ raised = "RuntimeError"
              /\ sendReturn.msg = "Missing PUSHOVER_USER_KEYS (comma-separated) or PUSHOVER_USER_KEY in environment."
              /\ posts = <<>>

C18_Witness ==
    /\ Exited
    /\ ListForm = <<",", " ", ",">>
    /\ LegacyForm = <<" ", "j", " ">>
    /\ sendReturn.users = <<>>
    /\ raised = "RuntimeError"

====
